---- MODULE Spec2Model ----
(***************************************************************************)
(* A model of the ray tracer: vector algebra, Interval, Sphere::hit,       *)
(* World::add / World::hit, ScatteredRay::scatter, Ray::blue_lerp,         *)
(* Camera::initialize, Camera::render, Camera::ray_color and the Color     *)
(* arithmetic.                                                             *)
(*                                                                         *)
(* Numbers.  The program computes in f64.  The model computes with exact   *)
(* rationals [n |-> numerator, d |-> denominator], kept in lowest terms    *)
(* with d > 0; f64::INFINITY is [n |-> 1, d |-> 0].  Every input set below *)
(* is chosen so that each square root the code takes on it is rational     *)
(* (the guards named Exact... state this), so no operation of the model    *)
(* rounds.  u8 / u16 values are integers with the casts of the code        *)
(* (`as u8` on an f64 truncates toward zero and saturates).                *)
(***************************************************************************)
EXTENDS Integers, Sequences, FiniteSets, TLC

VARIABLES
    objects,       \* World.objects : the primitives, in insertion order
    call,          \* the last direct call of a function: arguments and result
    pc,            \* position of Camera::ray_color: idle / enter / return / done
    ray,           \* ray_color: the `ray` argument of the innermost call
    depth,         \* ray_color: the `depth` argument of the innermost call
    stack,         \* ray_color: attenuations of the calls waiting for their callee
    result,        \* ray_color: the value returned by the innermost finished call
    how,           \* ray_color: which branch produced `result`
    hitRec,        \* ray_color: `hit`, the record world.hit returned last
    scattered,     \* ray_color: `scattered_ray`, the last ScatteredRay
    depth0,        \* ray_color: the depth of the outermost call
    hitCalls,      \* ray_color: world.hit calls made since the outermost call
    scatterCalls   \* ray_color: scatter calls made since the outermost call

traceVars == <<pc, ray, depth, stack, result, how, hitRec, scattered, depth0,
               hitCalls, scatterCalls>>
vars == <<objects, call, pc, ray, depth, stack, result, how, hitRec, scattered,
          depth0, hitCalls, scatterCalls>>

----------------------------------------------------------------------------
(* Bounds of the model *)

MaxObjects == 2
MaxBounces == 2
\* the rays ray_color is followed on have coordinates n/d within these
MaxDenominator == 25
MaxNumerator == 400

----------------------------------------------------------------------------
(* f64 as exact rationals *)

Abs(i) == IF i < 0 THEN -i ELSE i

RECURSIVE GCD(_, _)
GCD(a, b) == IF b = 0 THEN a ELSE GCD(b, a % b)

\* n / d in lowest terms, d > 0
Q(n, d) ==
    LET g == GCD(Abs(n), Abs(d))
        s == IF d < 0 THEN -1 ELSE 1
    IN  [n |-> (s * n) \div g, d |-> (s * d) \div g]

I(i) == [n |-> i, d |-> 1]
Zero == I(0)
One == I(1)
Two == I(2)
Half == Q(1, 2)
INFINITY == [n |-> 1, d |-> 0]

\* (common factors are divided out before the products are formed, to keep the
\* intermediate integers small)
RNeg(a) == [n |-> -a.n, d |-> a.d]
RAdd(a, b) ==
    LET g == GCD(a.d, b.d)
    IN  Q(a.n * (b.d \div g) + b.n * (a.d \div g), (a.d \div g) * b.d)
RSub(a, b) == RAdd(a, RNeg(b))
RMul(a, b) ==
    LET g1 == GCD(Abs(a.n), b.d)
        g2 == GCD(Abs(b.n), a.d)
    IN  Q((a.n \div g1) * (b.n \div g2), (a.d \div g2) * (b.d \div g1))
RDiv(a, b) == RMul(a, Q(b.d, b.n))
\* a < b, by integer parts and then the reciprocals of the fractional parts (no
\* product is formed, so 1e-8 is compared without leaving the integers of TLC);
\* nothing is above INFINITY and every finite number is below it
RECURSIVE RLt(_, _)
RLt(a, b) ==
    IF b.d = 0 THEN a.d # 0
    ELSE IF a.d = 0 THEN FALSE
    ELSE LET fa == a.n \div a.d
             fb == b.n \div b.d
             ra == a.n % a.d
             rb == b.n % b.d
         IN  IF fa # fb THEN fa < fb
             ELSE IF rb = 0 THEN FALSE
             ELSE IF ra = 0 THEN TRUE
             ELSE RLt([n |-> b.d, d |-> rb], [n |-> a.d, d |-> ra])
RLe(a, b) == ~RLt(b, a)

\* floor of the square root of a natural number
\* (Newton's iteration from above: x decreases to the floor of the root)
RECURSIVE ISqrtFrom(_, _)
ISqrtFrom(i, x) ==
    LET y == (x + i \div x) \div 2
    IN  IF y >= x THEN x ELSE ISqrtFrom(i, y)
ISqrt(i) == IF i <= 0 THEN 0 ELSE ISqrtFrom(i, i)
IsSquare(i) == i >= 0 /\ ISqrt(i) * ISqrt(i) = i

\* f64::sqrt on the rationals whose root is rational
HasSqrt(a) == IsSquare(a.n) /\ IsSquare(a.d)
RSqrt(a) == [n |-> ISqrt(a.n), d |-> ISqrt(a.d)]

\* `x as u8` for an f64 x: truncate toward zero, saturate to 0..255
MAX_COLOR_CHANNEL_VALUE == 255
AsU8(a) ==
    IF a.n <= 0 THEN 0
    ELSE IF a.n \div a.d > MAX_COLOR_CHANNEL_VALUE THEN MAX_COLOR_CHANNEL_VALUE
    ELSE a.n \div a.d

----------------------------------------------------------------------------
(* Vec3 *)

Vec(x, y, z) == [x |-> x, y |-> y, z |-> z]
IVec(x, y, z) == Vec(I(x), I(y), I(z))

Dot(u, v) == RAdd(RAdd(RMul(u.x, v.x), RMul(u.y, v.y)), RMul(u.z, v.z))
VAdd(u, v) == Vec(RAdd(u.x, v.x), RAdd(u.y, v.y), RAdd(u.z, v.z))
VSub(u, v) == Vec(RSub(u.x, v.x), RSub(u.y, v.y), RSub(u.z, v.z))
VScale(k, v) == Vec(RMul(k, v.x), RMul(k, v.y), RMul(k, v.z))
VDiv(v, k) == Vec(RDiv(v.x, k), RDiv(v.y, k), RDiv(v.z, k))
VLen(v) == RSqrt(Dot(v, v))
Normalized(v) == VDiv(v, VLen(v))
\* the length is rational and not zero: `normalized` neither rounds nor divides by 0
ExactNormalized(v) == HasSqrt(Dot(v, v)) /\ Dot(v, v) # Zero

\* Vec3::near_zero
NearZeroLimit == Q(1, 100000000)
NearZero(v) == RLt(v.x, NearZeroLimit) /\ RLt(v.y, NearZeroLimit) /\ RLt(v.z, NearZeroLimit)

----------------------------------------------------------------------------
(* Interval *)

Interval(min, max) == [min |-> min, max |-> max]

ContainsLoose(iv, x) == RLe(iv.min, x) /\ RLt(x, iv.max)
Contains(iv, x) == RLt(iv.min, x) /\ RLt(x, iv.max)

----------------------------------------------------------------------------
(* Ray, HitRecord, Sphere::hit *)
(* A value the code binds with `let` and uses more than once is passed on as a    *)
(* parameter of the operator that models the rest of the function.              *)

Ray(origin, direction) == [origin |-> origin, direction |-> direction]
At(r, t) == VAdd(r.origin, VScale(t, r.direction))

None == [some |-> FALSE]

IsHitFromFrontFlipped(r, outward_normal) == RLt(Zero, Dot(r.direction, outward_normal))
\* HitRecord::is_hit_from_front
IsHitFromFront(r, outward_normal) == RLt(Dot(r.direction, outward_normal), Zero)

OrientedNormalNoFlip(front_face, outward_normal) == outward_normal
\* let normal = if front_face { outward_normal } else { -1.0 * outward_normal };
OrientedNormal(front_face, outward_normal) ==
    IF front_face THEN outward_normal ELSE VScale(I(-1), outward_normal)

\* Some(HitRecord { t, p, normal, front_face, material })
HitRecord(s, t, p, outward_normal, front_face) ==
    [some |-> TRUE, t |-> t, p |-> p,
     normal |-> OrientedNormal(front_face, outward_normal),
     front_face |-> front_face, material |-> s.material]

\* let outward_normal = (p - self.center) / self.radius;
OutwardNormal(s, p) == VDiv(VSub(p, s.center), s.radius)

\* the tail of Sphere::hit, once the root is chosen
HitAtPoint(s, r, root, p, outward_normal) ==
    HitRecord(s, root, p, outward_normal, IsHitFromFront(r, outward_normal))
HitAt(s, r, root) == HitAtPoint(s, r, root, At(r, root), OutwardNormal(s, At(r, root)))

\* let qc = self.center - ray.origin; and the coefficients a, h, c
QC(s, r) == VSub(s.center, r.origin)
CoefA(r) == Dot(r.direction, r.direction)
CoefH(s, r) == Dot(r.direction, QC(s, r))
CoefC(s, r) == RSub(Dot(QC(s, r), QC(s, r)), RMul(s.radius, s.radius))
\* let discriminant = h * h - a * c;
Discriminant(s, r) ==
    RSub(RMul(CoefH(s, r), CoefH(s, r)), RMul(CoefA(r), CoefC(s, r)))

\* (h - discriminant_sqrt) / a and (h + discriminant_sqrt) / a
NearRoot(a, h, discriminant_sqrt) == RDiv(RSub(h, discriminant_sqrt), a)
FarRoot(a, h, discriminant_sqrt) == RDiv(RAdd(h, discriminant_sqrt), a)

RootInIntervalFarFirst(s, r, interval, near, far) ==
    IF Contains(interval, far) THEN HitAt(s, r, far)
    ELSE IF Contains(interval, near) THEN HitAt(s, r, near)
    ELSE None
\* let mut root = near; if !interval.contains(root) { root = far;
\*     if !interval.contains(root) { return None; } }
RootInInterval(s, r, interval, near, far) ==
    IF Contains(interval, near) THEN HitAt(s, r, near)
    ELSE IF Contains(interval, far) THEN HitAt(s, r, far)
    ELSE None

SphereHitRoots(s, r, interval, a, h, discriminant_sqrt) ==
    RootInInterval(s, r, interval, NearRoot(a, h, discriminant_sqrt),
                   FarRoot(a, h, discriminant_sqrt))

\* Sphere::hit
SphereHit(s, r, interval) ==
    IF RLt(Discriminant(s, r), Zero) THEN None
    ELSE SphereHitRoots(s, r, interval, CoefA(r), CoefH(s, r), RSqrt(Discriminant(s, r)))

\* Sphere::hit neither rounds nor divides by zero on (s, r)
ExactDiscriminant(discriminant) == RLt(discriminant, Zero) \/ HasSqrt(discriminant)
ExactSphereHit(s, r) ==
    /\ CoefA(r) # Zero
    /\ s.radius # Zero
    /\ ExactDiscriminant(Discriminant(s, r))

----------------------------------------------------------------------------
(* World *)

RECURSIVE WorldHitFrom(_, _, _, _, _)

WorldHitStepLastWins(objs, i, r, interval, closest_hit, hit) ==
    IF hit.some
    THEN WorldHitFrom(objs, i + 1, r, interval, hit)
    ELSE WorldHitFrom(objs, i + 1, r, interval, closest_hit)
\* if let Some(hit) = object.hit(ray, interval) { interval.max = hit.t;
\*     closest_hit = Some(hit); }, and the rest of the loop
WorldHitStep(objs, i, r, interval, closest_hit, hit) ==
    IF hit.some
    THEN WorldHitFrom(objs, i + 1, r, [interval EXCEPT !.max = hit.t], hit)
    ELSE WorldHitFrom(objs, i + 1, r, interval, closest_hit)

\* the loop of World::hit from object i on
WorldHitFrom(objs, i, r, interval, closest_hit) ==
    IF i > Len(objs) THEN closest_hit
    ELSE WorldHitStep(objs, i, r, interval, closest_hit, SphereHit(objs[i], r, interval))

\* World::hit
WorldHit(objs, r, interval) == WorldHitFrom(objs, 1, r, interval, None)

ExactWorldHit(objs, r) == \A i \in 1..Len(objs) : ExactSphereHit(objs[i], r)

----------------------------------------------------------------------------
(* Color *)

Color(r, g, b) == [r |-> r, g |-> g, b |-> b]
White == Color(MAX_COLOR_CHANNEL_VALUE, MAX_COLOR_CHANNEL_VALUE, MAX_COLOR_CHANNEL_VALUE)
Black == Color(0, 0, 0)

\* u8::overflowing_add
U8Modulus == 256
OverflowingAdd(a, b) == [value |-> (a + b) % U8Modulus, overflow |-> a + b >= U8Modulus]

ChannelAddWrapping(a, b) == OverflowingAdd(a, b).value
\* one channel of Color + Color
ChannelAdd(a, b) ==
    LET sum == OverflowingAdd(a, b)
    IN  IF sum.overflow THEN MAX_COLOR_CHANNEL_VALUE ELSE sum.value

ColorAdd(c1, c2) ==
    Color(ChannelAdd(c1.r, c2.r), ChannelAdd(c1.g, c2.g), ChannelAdd(c1.b, c2.b))

\* Color * f64
ColorMulF64Rounded(c, rhs) ==
    Color(AsU8(RAdd(RMul(I(c.r), rhs), Half)), AsU8(RAdd(RMul(I(c.g), rhs), Half)),
          AsU8(RAdd(RMul(I(c.b), rhs), Half)))
ColorMulF64(c, rhs) ==
    Color(AsU8(RMul(I(c.r), rhs)), AsU8(RMul(I(c.g), rhs)), AsU8(RMul(I(c.b), rhs)))
\* f64 * Color
F64MulColor(lhs, c) ==
    Color(AsU8(RMul(lhs, I(c.r))), AsU8(RMul(lhs, I(c.g))), AsU8(RMul(lhs, I(c.b))))

\* Color * Color: each channel taken as a fraction of 255, multiplied, rescaled
ChannelMul(a, b) ==
    AsU8(RMul(RMul(Q(a, MAX_COLOR_CHANNEL_VALUE), Q(b, MAX_COLOR_CHANNEL_VALUE)),
              I(MAX_COLOR_CHANNEL_VALUE)))
ColorMulColor(c1, c2) ==
    Color(ChannelMul(c1.r, c2.r), ChannelMul(c1.g, c2.g), ChannelMul(c1.b, c2.b))

----------------------------------------------------------------------------
(* Ray::blue_lerp *)

BlueLerpEndColor ==
    Color(AsU8(RMul(I(MAX_COLOR_CHANNEL_VALUE), Half)),
          AsU8(RMul(I(MAX_COLOR_CHANNEL_VALUE), Q(7, 10))),
          AsU8(RMul(I(MAX_COLOR_CHANNEL_VALUE), One)))

BlueLerpMixSwapped(a, start_color, end_color) ==
    ColorAdd(F64MulColor(a, start_color), F64MulColor(RSub(One, a), end_color))
\* (1.0 - a) * start_color + a * end_color
BlueLerpMix(a, start_color, end_color) ==
    ColorAdd(F64MulColor(RSub(One, a), start_color), F64MulColor(a, end_color))

\* let a = 0.5 * (normalized.y + 1.0);
BlueLerpA(r) == RMul(Half, RAdd(Normalized(r.direction).y, One))

\* Ray::blue_lerp
BlueLerp(r) == BlueLerpMix(BlueLerpA(r), White, BlueLerpEndColor)

----------------------------------------------------------------------------
(* Material, ScatteredRay::scatter *)

Lambertian == [tag |-> "Lambertian"]
Metal(fuzz) == [tag |-> "Metal", fuzz |-> fuzz]
Material(material_type, albedo) == [material_type |-> material_type, albedo |-> albedo]
Sphere(center, radius, material) ==
    [center |-> center, radius |-> radius, material |-> material]

\* Vec3::random_unit_vector; raw holds the three rand::random::<f64>() draws
RandomUnitVector(raw) == Normalized(raw)

\* the incident direction mirrored about the normal, normalized
Reflected(hit, incident_ray) ==
    VSub(incident_ray.direction,
         VScale(RMul(Two, Dot(incident_ray.direction, hit.normal)), hit.normal))

\* scatter_direction after the match on the material type
MatchDirection(hit, incident_ray, raw) ==
    IF hit.material.material_type.tag = "Lambertian"
    THEN LET scatter_direction == VAdd(RandomUnitVector(raw), hit.normal)
         IN  IF NearZero(scatter_direction) THEN hit.normal ELSE scatter_direction
    ELSE VAdd(Normalized(Reflected(hit, incident_ray)),
              VScale(hit.material.material_type.fuzz, RandomUnitVector(raw)))

FinalDirectionNoFlip(hit, scatter_direction) == scatter_direction
\* scatter_direction after the check against the normal
FinalDirection(hit, scatter_direction) ==
    IF RLe(Zero, Dot(scatter_direction, hit.normal))
    THEN scatter_direction
    ELSE VScale(I(-1), scatter_direction)

Scatter(hit, incident_ray, raw) ==
    LET scatter_direction == FinalDirection(hit, MatchDirection(hit, incident_ray, raw))
    IN  [ray |-> Ray(hit.p, scatter_direction), attenuation |-> hit.material.albedo]

\* scatter neither rounds nor divides by zero on these arguments
ExactScatter(hit, incident_ray, raw) ==
    /\ ExactNormalized(raw)
    /\ hit.material.material_type.tag = "Metal"
         => ExactNormalized(Reflected(hit, incident_ray))

----------------------------------------------------------------------------
(* The inputs the model draws *)

Diffuse == Material(Lambertian, Color(229, 229, 229))
Mirror == Material(Metal(Zero), Color(204, 153, 51))
Rough == Material(Metal(One), Color(127, 127, 255))

SphereSet ==
    { Sphere(IVec(3, 0, 0), One, Diffuse),      \* the sphere of tests::hit_sphere
      Sphere(IVec(5, 0, 0), Two, Mirror),       \* overlaps it, farther along +x
      Sphere(IVec(3, 0, 0), One, Rough),        \* same place as the first, other material
      Sphere(IVec(3, -1, 0), One, Rough),       \* the ray along +x from the origin grazes it
      Sphere(IVec(0, 0, 0), I(8), Diffuse) }    \* encloses the ray origins: no ray misses it

OriginSet == { IVec(0, 0, 0), IVec(0, 1, 0), IVec(3, 0, 0), IVec(0, -4, 0) }
DirectionSet ==
    { IVec(1, 0, 0), IVec(2, 0, 0), IVec(-1, 0, 0), IVec(0, 1, 0), IVec(0, -1, 0),
      IVec(3, 4, 0) }
RaySet == { Ray(o, d) : o \in OriginSet, d \in DirectionSet }
\* the rays of Camera::get_ray start at the camera center
CameraRaySet ==
    { Ray(IVec(0, 0, 0), d) : d \in {IVec(1, 0, 0), IVec(0, 1, 0), IVec(0, -1, 0), IVec(3, 4, 0)} }

MINIMUM_DISTANCE_AGAINST_SHADOW_ACNE == Q(1, 10000)
RayColorInterval == Interval(MINIMUM_DISTANCE_AGAINST_SHADOW_ACNE, INFINITY)

IntervalSet ==
    { Interval(Zero, I(100)),       \* the interval of tests::hit_sphere
      RayColorInterval,
      Interval(Two, I(100)),        \* its lower bound is a near root
      Interval(Zero, Two),          \* its upper bound is a near root
      Interval(I(3), One) }         \* min >= max
XSet == { Zero, One, Two, I(3), I(100), MINIMUM_DISTANCE_AGAINST_SHADOW_ACNE, Q(5, 2), I(-1) }

\* the three draws of random_unit_vector, each in [0, 1)
RawSet ==
    { Vec(Half, Zero, Zero), Vec(Zero, Half, Zero),
      Vec(Q(7, 100), Q(24, 100), Zero) }

ChannelSet == { 0, 1, 40, 100, 128, 200, 255 }
ColorSet == { Color(r, g, b) : r \in ChannelSet, g \in {40, 255}, b \in {0, 80, 200} }

----------------------------------------------------------------------------
(* State *)

NoCall == [op |-> "none"]
NoScatter == [some |-> FALSE]

TraceInit ==
    /\ pc = "idle"
    /\ ray = Ray(IVec(0, 0, 0), IVec(1, 0, 0))
    /\ depth = 0
    /\ stack = <<>>
    /\ result = Black
    /\ how = "none"
    /\ hitRec = None
    /\ scattered = NoScatter
    /\ depth0 = 0
    /\ hitCalls = 0
    /\ scatterCalls = 0

Init ==
    /\ objects = <<>>
    /\ call = NoCall
    /\ TraceInit

----------------------------------------------------------------------------
(* World::add and the direct calls *)

\* World::add(object); the scenes the model builds list an object once
Add(s) ==
    /\ pc = "idle"
    /\ call = NoCall
    /\ Len(objects) < MaxObjects
    /\ \A i \in 1..Len(objects) : objects[i] # s
    /\ objects' = Append(objects, s)
    /\ UNCHANGED <<call, traceVars>>

\* World::hit(ray, interval)
WorldHitCall(r, iv) ==
    /\ pc = "idle"
    /\ call = NoCall
    /\ ExactWorldHit(objects, r)
    /\ call' = [op |-> "World.hit", objects |-> objects, ray |-> r, interval |-> iv,
                result |-> WorldHit(objects, r, iv)]
    /\ UNCHANGED <<objects, traceVars>>

\* the caller drops the value a finished call returned
Drop ==
    /\ pc \in {"idle", "done"}
    /\ call # NoCall \/ pc = "done"
    /\ call' = NoCall
    /\ pc' = "idle"
    /\ ray' = Ray(IVec(0, 0, 0), IVec(1, 0, 0))
    /\ depth' = 0
    /\ stack' = <<>>
    /\ result' = Black
    /\ how' = "none"
    /\ hitRec' = None
    /\ scattered' = NoScatter
    /\ depth0' = 0
    /\ hitCalls' = 0
    /\ scatterCalls' = 0
    /\ UNCHANGED objects

\* Interval::contains(x)
ContainsCall(iv, x) ==
    /\ call = NoCall
    /\ call' = [op |-> "Interval.contains", interval |-> iv, x |-> x,
                result |-> Contains(iv, x)]
    /\ UNCHANGED <<objects, traceVars>>

\* Sphere::hit(ray, interval)
SphereHitCall(s, r, iv) ==
    /\ call = NoCall
    /\ ExactSphereHit(s, r)
    /\ call' = [op |-> "Sphere.hit", sphere |-> s, ray |-> r, interval |-> iv,
                result |-> SphereHit(s, r, iv)]
    /\ UNCHANGED <<objects, traceVars>>

\* Color + Color
ColorAddCall(c1, c2) ==
    /\ call = NoCall
    /\ call' = [op |-> "Color.add", lhs |-> c1, rhs |-> c2, result |-> ColorAdd(c1, c2)]
    /\ UNCHANGED <<objects, traceVars>>

----------------------------------------------------------------------------
(* Camera::ray_color, one action per branch of one call *)

U16Modulus == 65536

DepthExhaustedNever(d) == FALSE
\* depth <= 0
DepthExhausted(d) == d <= 0

NextDepthSame(d) == d
\* depth - 1 in u16
NextDepth(d) == (d - 1) % U16Modulus

\* the coordinates of r are fractions the model can compute with
SmallNumber(q) == q.d <= MaxDenominator /\ Abs(q.n) <= MaxNumerator
SmallVec(v) == SmallNumber(v.x) /\ SmallNumber(v.y) /\ SmallNumber(v.z)
SmallRay(r) == SmallVec(r.origin) /\ SmallVec(r.direction)

\* what one call of ray_color computes on (objects, r) is exact: the hits, and
\* the normalization of blue_lerp on a miss.  The model follows
\* ray_color(r, world, d) when every call it makes is exact for some draws.
RECURSIVE Followable(_, _)
FollowableFrom(r, d, hit) ==
    IF ~hit.some THEN ExactNormalized(r.direction)
    ELSE \E raw \in RawSet :
            IF ExactScatter(hit, r, raw)
            THEN Followable(Scatter(hit, r, raw).ray, d - 1)
            ELSE FALSE
Followable(r, d) ==
    IF d <= 0 THEN TRUE
    ELSE IF ~(SmallRay(r) /\ ExactWorldHit(objects, r)) THEN FALSE
    ELSE FollowableFrom(r, d, WorldHit(objects, r, RayColorInterval))

\* the bounces left to the call that follows this one
Remaining == IF depth0 > scatterCalls THEN depth0 - scatterCalls - 1 ELSE 0

\* scatter of hit with the draws raw, and the calls that follow it, are exact
ExactBounce(hit, raw) ==
    IF ExactScatter(hit, ray, raw)
    THEN Followable(Scatter(hit, ray, raw).ray, Remaining)
    ELSE FALSE

\* the outermost call, as Camera::render makes it
RayColorCall(r, d) ==
    /\ pc = "idle"
    /\ call = NoCall
    /\ Followable(r, d)
    /\ pc' = "enter"
    /\ ray' = r
    /\ depth' = d
    /\ depth0' = d
    /\ stack' = <<>>
    /\ result' = Black
    /\ how' = "none"
    /\ hitRec' = None
    /\ scattered' = NoScatter
    /\ hitCalls' = 0
    /\ scatterCalls' = 0
    /\ call' = NoCall
    /\ UNCHANGED objects

\* if depth <= 0 { return Color::black(); }
RayColorBase ==
    /\ pc = "enter"
    /\ DepthExhausted(depth)
    /\ result' = Black
    /\ how' = "base"
    /\ pc' = "return"
    /\ UNCHANGED <<objects, call, ray, depth, stack, hitRec, scattered, depth0,
                   hitCalls, scatterCalls>>

\* world.hit is Some(hit): scatter, then call ray_color(scattered_ray.ray, world, depth - 1)
\* (scatter takes the ray of this call as its incident_ray)
RayColorHit(raw) ==
    /\ pc = "enter"
    /\ ~DepthExhausted(depth)
    /\ \E hit \in {WorldHit(objects, ray, RayColorInterval)} :
          /\ hit.some
          /\ ExactBounce(hit, raw)
          /\ \E scattered_ray \in {Scatter(hit, ray, raw)} :
                /\ hitRec' = hit
                /\ scattered' = [some |-> TRUE, hit |-> hit, incident |-> ray,
                                 raw |-> raw, ray |-> scattered_ray.ray,
                                 attenuation |-> scattered_ray.attenuation]
                /\ stack' = Append(stack, scattered_ray.attenuation)
                /\ ray' = scattered_ray.ray
    /\ depth' = NextDepth(depth)
    /\ hitCalls' = hitCalls + 1
    /\ scatterCalls' = scatterCalls + 1
    /\ pc' = "enter"
    /\ UNCHANGED <<objects, call, result, how, depth0>>

\* world.hit is None: Ray::blue_lerp(ray)
RayColorMiss ==
    /\ pc = "enter"
    /\ ~DepthExhausted(depth)
    /\ ~WorldHit(objects, ray, RayColorInterval).some
    /\ hitRec' = None
    /\ result' = BlueLerp(ray)
    /\ how' = "miss"
    /\ hitCalls' = hitCalls + 1
    /\ pc' = "return"
    /\ UNCHANGED <<objects, call, ray, depth, stack, scattered, depth0, scatterCalls>>

\* a call returns: its caller multiplies the value by its attenuation
RayColorReturn ==
    /\ pc = "return"
    /\ IF stack = <<>>
       THEN /\ pc' = "done"
            /\ UNCHANGED <<stack, result, how>>
       ELSE /\ result' = ColorMulColor(stack[Len(stack)], result)
            /\ stack' = SubSeq(stack, 1, Len(stack) - 1)
            /\ how' = "mul"
            /\ pc' = "return"
    /\ UNCHANGED <<objects, call, ray, depth, hitRec, scattered, depth0, hitCalls,
                   scatterCalls>>

RayColorStep ==
    \/ RayColorBase
    \/ \E raw \in RawSet : RayColorHit(raw)
    \/ RayColorMiss
    \/ RayColorReturn

Next ==
    \/ \E s \in SphereSet : Add(s)
    \/ \E r \in RaySet, iv \in IntervalSet : WorldHitCall(r, iv)
    \/ \E r \in CameraRaySet, d \in 0..MaxBounces : RayColorCall(r, d)
    \/ RayColorStep
    \/ Drop

\* the world and the calls made on it
Spec == Init /\ [][Next]_vars

\* a call of ray_color is running
Running == pc \in {"enter", "return"}

\* ray_color runs to completion once called: nothing else is scheduled.  This is
\* WF_vars(RayColorStep) with ENABLED <<RayColorStep>>_vars written out as Running
\* (one of the four branches can be taken in every running state: NotStuck).
LiveSpec == Spec /\ (<>[]Running => []<><<RayColorStep>>_vars)

\* ray_color can always take its next step on the inputs the model draws
NotStuck ==
    (pc = "enter" /\ ~DepthExhausted(depth))
    => \E hit \in {WorldHit(objects, ray, RayColorInterval)} :
          hit.some => \E raw \in RawSet : ExactBounce(hit, raw)

----------------------------------------------------------------------------
(* Color::mean_color *)

\* the value of a call that panicked, and of one that returned color
Panic == [panic |-> TRUE]
Returned(color) == [panic |-> FALSE, color |-> color]

\* r += color.r as u16: the sum in u16, and whether it passed u16::MAX
U16Add(acc, x) ==
    [value |-> (acc + x) % U16Modulus, overflow |-> acc + x >= U16Modulus]

\* the three accumulators after one more color of the loop
Accumulate(acc, color) ==
    [r |-> U16Add(acc.r, color.r).value,
     g |-> U16Add(acc.g, color.g).value,
     b |-> U16Add(acc.b, color.b).value,
     overflow |-> \/ acc.overflow
                  \/ U16Add(acc.r, color.r).overflow
                  \/ U16Add(acc.g, color.g).overflow
                  \/ U16Add(acc.b, color.b).overflow]

\* for color in &colors { r += ...; g += ...; b += ...; } over colors[lo..hi],
\* first to last: the colors up to the middle, then the colors after it
RECURSIVE AccumulateRange(_, _, _, _)
AccumulateRange(colors, lo, hi, acc) ==
    IF lo > hi THEN acc
    ELSE IF lo = hi THEN Accumulate(acc, colors[lo])
    ELSE CHOOSE sums \in { AccumulateRange(colors, (lo + hi) \div 2 + 1, hi, first) :
                              first \in {AccumulateRange(colors, lo, (lo + hi) \div 2, acc)} } :
            TRUE

\* colors.len() as u16
LenAsU16(colors) == Len(colors) % U16Modulus
\* r as u8, for r: u16
U16AsU8(x) == x % U8Modulus

\* r /= colors.len() as u16; ...; Color { r: r as u8, ... }
MeanOfSums(acc, n) ==
    Color(U16AsU8(acc.r \div n), U16AsU8(acc.g \div n), U16AsU8(acc.b \div n))

\* the rest of mean_color once the loop has run.  An overflow of += panics in a
\* build with overflow checks and wraps in one without; a division by 0 panics.
MeanColorAfterLoop(acc, n, overflow_checks) ==
    IF overflow_checks /\ acc.overflow THEN Panic
    ELSE IF n = 0 THEN Panic
    ELSE Returned(MeanOfSums(acc, n))

\* Color::mean_color(colors)
MeanColor(colors, overflow_checks) ==
    MeanColorAfterLoop(
        AccumulateRange(colors, 1, Len(colors),
                        [r |-> 0, g |-> 0, b |-> 0, overflow |-> FALSE]),
        LenAsU16(colors), overflow_checks)

\* n copies of color
Repeat(color, n) == [i \in 1..n |-> color]
SampleCountSet == { 1, 2, 3, 100, 257, 258 }
SampleColorSet ==
    { Color(255, 255, 255), Color(0, 0, 0), Color(100, 40, 80), Color(255, 1, 128) }
ColorListSet ==
    { Repeat(c, n) : c \in SampleColorSet, n \in SampleCountSet }
    \cup { <<>>,
           <<Color(100, 40, 80), Color(200, 41, 80)>>,
           <<Color(255, 0, 0), Color(0, 255, 0), Color(0, 0, 255)>> }

\* Color::mean_color(colors), in a build with or without overflow checks
MeanColorCall(colors, overflow_checks) ==
    /\ call = NoCall
    /\ call' = [op |-> "Color.mean_color", colors |-> colors,
                overflow_checks |-> overflow_checks,
                result |-> MeanColor(colors, overflow_checks)]
    /\ UNCHANGED <<objects, traceVars>>

----------------------------------------------------------------------------
(* Color::gamma_corrected *)

\* f64::sqrt(color as f64) as u8: the root of an integer below 2^52 is rounded
\* to an f64 that lies on the same side of every integer as the exact root
SqrtAsU8Nearest(color) ==
    IF color - ISqrt(color) * ISqrt(color) > ISqrt(color)
    THEN ISqrt(color) + 1 ELSE ISqrt(color)
SqrtAsU8(color) == ISqrt(color)

ChannelGammaCorrection(color) ==
    IF color > 0 THEN SqrtAsU8(color) ELSE color

GammaCorrected(color) ==
    Color(ChannelGammaCorrection(color.r),
          ChannelGammaCorrection(color.g),
          ChannelGammaCorrection(color.b))

\* colors whose red channel takes every value of a u8
GammaColorSet ==
    { Color(c, (7 * c) % U8Modulus, MAX_COLOR_CHANNEL_VALUE - c) :
         c \in 0..MAX_COLOR_CHANNEL_VALUE }

\* color.gamma_corrected()
GammaCorrectedCall(color) ==
    /\ call = NoCall
    /\ call' = [op |-> "Color.gamma_corrected", color |-> color,
                result |-> GammaCorrected(color)]
    /\ UNCHANGED <<objects, traceVars>>

----------------------------------------------------------------------------
(* Color * f64 and f64 * Color, as tests::color_mul_f64 applies them *)

\* scalars an f64 holds exactly, so that each product below is exact in f64
ScalarSet ==
    { Zero, Half, One, Two, Q(3, 2), Q(3, 4), Q(5, 8), Q(-1, 2), I(100) }

\* color * s and s * color
ColorMulCall(color, s) ==
    /\ call = NoCall
    /\ call' = [op |-> "Color.mul", color |-> color, scalar |-> s,
                product |-> ColorMulF64(color, s),
                flipped |-> F64MulColor(s, color)]
    /\ UNCHANGED <<objects, traceVars>>

----------------------------------------------------------------------------
(* Camera::initialize *)

\* 0.0 / 0.0, and the Vec3 whose coordinates are all NaN
NaN == [n |-> 0, d |-> 0]
NaNVec == Vec(NaN, NaN, NaN)

\* `x as u32` for an f64 x below 2^31: the fraction is dropped, a negative x is 0
AsU32Nearest(a) == IF a.n <= 0 THEN 0 ELSE (2 * a.n + a.d) \div (2 * a.d)
AsU32(a) == IF a.n <= 0 THEN 0 ELSE a.n \div a.d

\* let image_height = (image_width as f64 / aspect_ratio) as u32;
\* let image_height = if image_height < 1 { 1 } else { image_height };
AtLeastOne(image_height) == IF image_height < 1 THEN 1 ELSE image_height
ImageHeight(aspect_ratio, image_width) ==
    AtLeastOne(AsU32(RDiv(I(image_width), aspect_ratio)))

FocalLength == One
ViewportHeight == Two
\* viewport_height * (image_width / image_height) as f64, the quotient taken in u32
ViewportWidth(image_width, image_height) ==
    RMul(ViewportHeight, I(image_width \div image_height))

ViewportU(viewport_width) == Vec(Zero, Zero, viewport_width)
ViewportV == Vec(Zero, RNeg(ViewportHeight), Zero)

\* viewport_u / image_width as f64: 0.0 / 0.0 in every coordinate when image_width
\* is 0 (viewport_width is 0.0 then)
PixelDeltaU(viewport_u, image_width) ==
    IF image_width = 0 THEN NaNVec ELSE VDiv(viewport_u, I(image_width))
\* viewport_v / image_height as f64
PixelDeltaV(image_height) == VDiv(ViewportV, I(image_height))

ViewportUpperLeft(viewport_u) ==
    VSub(VSub(Vec(FocalLength, Zero, Zero), VDiv(viewport_u, Two)),
         VDiv(ViewportV, Two))
\* viewport_upper_left + 0.5 * (pixel_delta_v + pixel_delta_u); NaN spreads
\* through + and *
Pixel00Loc(viewport_upper_left, pixel_delta_v, pixel_delta_u) ==
    IF pixel_delta_u = NaNVec THEN NaNVec
    ELSE VAdd(viewport_upper_left, VScale(Half, VAdd(pixel_delta_v, pixel_delta_u)))

Camera(image_width, image_height, pixel_00_loc, pixel_delta_u, pixel_delta_v, center, sample_per_pixel, max_ray_bounces) ==
    [image_width |-> image_width, image_height |-> image_height,
     pixel_00_loc |-> pixel_00_loc, pixel_delta_u |-> pixel_delta_u,
     pixel_delta_v |-> pixel_delta_v, center |-> center,
     sample_per_pixel |-> sample_per_pixel, max_ray_bounces |-> max_ray_bounces]

\* the Camera built from the values of the lets of initialize
InitializeFrom(image_width, image_height, viewport_u, sample_per_pixel, max_ray_bounces) ==
    Camera(image_width, image_height,
           Pixel00Loc(ViewportUpperLeft(viewport_u), PixelDeltaV(image_height),
                      PixelDeltaU(viewport_u, image_width)),
           PixelDeltaU(viewport_u, image_width), PixelDeltaV(image_height),
           IVec(0, 0, 0), sample_per_pixel, max_ray_bounces)

\* Camera::initialize(aspect_ratio, image_width, sample_per_pixel, max_ray_bounces)
Initialize(aspect_ratio, image_width, sample_per_pixel, max_ray_bounces) ==
    InitializeFrom(
        image_width, ImageHeight(aspect_ratio, image_width),
        ViewportU(ViewportWidth(image_width, ImageHeight(aspect_ratio, image_width))),
        sample_per_pixel, max_ray_bounces)

\* aspect ratios an f64 holds exactly, among them 3:2, and image widths
AspectRatioSet == { Half, One, Q(3, 2), Two, I(4) }
ImageWidthSet == { 0, 1, 2, 3, 4, 500 }
SamplePerPixelSet == { 0, 1, 2 }

\* Camera::initialize(...); the call keeps the value of the let viewport_width
InitializeCall(aspect_ratio, image_width, sample_per_pixel, max_ray_bounces) ==
    /\ call = NoCall
    /\ call' = [op |-> "Camera.initialize", aspect_ratio |-> aspect_ratio,
                image_width |-> image_width,
                viewport_width |->
                    ViewportWidth(image_width, ImageHeight(aspect_ratio, image_width)),
                result |-> Initialize(aspect_ratio, image_width, sample_per_pixel,
                                      max_ray_bounces)]
    /\ UNCHANGED <<objects, traceVars>>

----------------------------------------------------------------------------
(* Camera::render, one action per loop head and per call of ray_color *)

\* Camera::sample_square(): the two draws of rand::random::<f64>() - 0.5 lie in
\* [-0.5, 0.5)
OffsetSet ==
    { Vec(Zero, y, z) : y \in { Q(-1, 2), Q(-1, 4), Zero },
                        z \in { Q(-1, 2), Q(-1, 4), Q(1, 8) } }

\* Camera::get_ray(row, column) with the draw offset of sample_square
GetRay(camera, row, column, offset) ==
    Ray(camera.center,
        VSub(VAdd(VAdd(camera.pixel_00_loc,
                       VScale(RAdd(I(column), offset.z), camera.pixel_delta_u)),
                  VScale(RAdd(I(row), offset.y), camera.pixel_delta_v)),
             camera.center))

Pixel(color) == [color |-> color]

\* the cameras render is run on: 0 to 2 columns, 1 or 2 rows, 0 to 2 samples
RenderCameraSet ==
    { Initialize(aspect_ratio, image_width, sample_per_pixel, max_ray_bounces) :
         aspect_ratio \in { One, Two }, image_width \in 0..2,
         sample_per_pixel \in SamplePerPixelSet, max_ray_bounces \in { 0, MaxBounces } }

\* camera.render(&world, gamma_corrected) is called: pixels_matrix is empty and
\* the loop over the rows begins
RenderCall(camera, gamma_corrected) ==
    /\ pc = "idle"
    /\ call = NoCall
    /\ call' = [op |-> "Camera.render", camera |-> camera,
                gamma_corrected |-> gamma_corrected, world |-> objects,
                at |-> "row", row |-> 0, col |-> 0, sampled_colors |-> <<>>,
                pixel_row |-> <<>>, pixels_matrix |-> <<>>, traced |-> <<>>]
    /\ UNCHANGED <<objects, traceVars>>

\* for row in 0..self.image_height: the next row begins, or the Image is returned
RenderRow ==
    /\ call.op = "Camera.render"
    /\ call.at = "row"
    /\ call' = IF call.row < call.camera.image_height
               THEN [call EXCEPT !.at = "col", !.col = 0, !.pixel_row = <<>>]
               ELSE [call EXCEPT !.at = "returned"]
    /\ UNCHANGED <<objects, traceVars>>

\* for col in 0..self.image_width: the next pixel begins, or the row is pushed
RenderCol ==
    /\ call.op = "Camera.render"
    /\ call.at = "col"
    /\ call' = IF call.col < call.camera.image_width
               THEN [call EXCEPT !.at = "sample", !.sampled_colors = <<>>]
               ELSE [call EXCEPT !.at = "row", !.row = call.row + 1,
                                 !.pixels_matrix = Append(call.pixels_matrix,
                                                          call.pixel_row)]
    /\ UNCHANGED <<objects, traceVars>>

\* for _ in 0..self.sample_per_pixel: get_ray, then
\* Camera::ray_color(&ray, world, self.max_ray_bounces) is entered
RenderSample(offset) ==
    /\ call.op = "Camera.render"
    /\ call.at = "sample"
    /\ Len(call.sampled_colors) < call.camera.sample_per_pixel
    /\ \E r \in {GetRay(call.camera, call.row, call.col, offset)} :
          /\ Followable(r, call.camera.max_ray_bounces)
          /\ ray' = r
    /\ pc' = "enter"
    /\ depth' = call.camera.max_ray_bounces
    /\ depth0' = call.camera.max_ray_bounces
    /\ stack' = <<>>
    /\ result' = Black
    /\ how' = "none"
    /\ hitRec' = None
    /\ scattered' = NoScatter
    /\ hitCalls' = 0
    /\ scatterCalls' = 0
    /\ call' = [call EXCEPT !.at = "trace",
                            !.traced = Append(call.traced,
                                              [row |-> call.row, col |-> call.col,
                                               depth |-> call.camera.max_ray_bounces])]
    /\ UNCHANGED objects

\* sampled_colors.push(...) of the color ray_color returned
RenderPush ==
    /\ call.op = "Camera.render"
    /\ call.at = "trace"
    /\ pc = "done"
    /\ call' = [call EXCEPT !.at = "sample",
                            !.sampled_colors = Append(call.sampled_colors, result)]
    /\ pc' = "idle"
    /\ ray' = Ray(IVec(0, 0, 0), IVec(1, 0, 0))
    /\ depth' = 0
    /\ stack' = <<>>
    /\ result' = Black
    /\ how' = "none"
    /\ hitRec' = None
    /\ scattered' = NoScatter
    /\ depth0' = 0
    /\ hitCalls' = 0
    /\ scatterCalls' = 0
    /\ UNCHANGED objects

\* the Pixel of Color::mean_color(sampled_colors), gamma corrected if asked
PixelOfMean(mean, gamma_corrected) ==
    IF gamma_corrected THEN Pixel(GammaCorrected(mean.color)) ELSE Pixel(mean.color)

\* the samples of the pixel are complete: pixel_row.push(...), unless mean_color
\* panics
RenderPixel(overflow_checks) ==
    /\ call.op = "Camera.render"
    /\ call.at = "sample"
    /\ Len(call.sampled_colors) >= call.camera.sample_per_pixel
    /\ \E mean \in {MeanColor(call.sampled_colors, overflow_checks)} :
          call' = IF mean.panic
                  THEN [call EXCEPT !.at = "panicked"]
                  ELSE [call EXCEPT !.at = "col", !.col = call.col + 1,
                                    !.pixel_row =
                                        Append(call.pixel_row,
                                               PixelOfMean(mean, call.gamma_corrected))]
    /\ UNCHANGED <<objects, traceVars>>

\* the caller drops the Image, or the panic unwinds
RenderDrop ==
    /\ call.op = "Camera.render"
    /\ call.at \in {"returned", "panicked"}
    /\ call' = NoCall
    /\ UNCHANGED <<objects, traceVars>>

RenderNext ==
    \/ \E s \in SphereSet : Add(s)
    \/ \E camera \in RenderCameraSet, gamma_corrected \in BOOLEAN :
          RenderCall(camera, gamma_corrected)
    \/ RenderRow
    \/ RenderCol
    \/ \E offset \in OffsetSet : RenderSample(offset)
    \/ RayColorStep
    \/ RenderPush
    \/ \E overflow_checks \in BOOLEAN : RenderPixel(overflow_checks)
    \/ RenderDrop

\* a world is built and rendered
RenderSpec == Init /\ [][RenderNext]_vars

----------------------------------------------------------------------------
(* The Lambertian arm of Material::scatter *)

\* a front-face hit on the unit sphere at the origin, where the point is the normal
LambertianHit(normal) ==
    [some |-> TRUE, t |-> One, p |-> normal, normal |-> normal,
     front_face |-> TRUE, material |-> Diffuse]

\* unit normals, and a unit normal a hair off (0, -1, 0)
NormalSet ==
    { IVec(-1, 0, 0), IVec(0, -1, 0), IVec(0, 1, 0), Vec(Q(-3, 5), Q(-4, 5), Zero) }
GrazingNormal == Vec(Q(-40000, 400000001), Q(-399999999, 400000001), Zero)
\* the normal of the hit and the draws of random_unit_vector
LambertianInputSet ==
    { <<normal, raw>> : normal \in NormalSet, raw \in RawSet }
    \cup { <<GrazingNormal, Vec(Half, Zero, Zero)>>,
           <<GrazingNormal, Vec(Zero, Half, Zero)>> }

\* the match of Material::scatter on a Lambertian hit: scatter_direction as first
\* computed, near_zero of it, and scatter_direction after the match
ScatterDirectionCall(normal, raw) ==
    /\ call = NoCall
    /\ ExactNormalized(raw)
    /\ call' = [op |-> "Material.scatter", normal |-> normal, raw |-> raw,
                computed |-> VAdd(RandomUnitVector(raw), normal),
                near_zero |-> NearZero(VAdd(RandomUnitVector(raw), normal)),
                scatter_direction |->
                    MatchDirection(LambertianHit(normal),
                                   Ray(IVec(0, 0, 0), VScale(I(-1), normal)), raw)]
    /\ UNCHANGED <<objects, traceVars>>

CallNext ==
    \/ \E iv \in IntervalSet, x \in XSet : ContainsCall(iv, x)
    \/ \E s \in SphereSet, r \in RaySet, iv \in IntervalSet : SphereHitCall(s, r, iv)
    \/ \E c1 \in ColorSet, c2 \in ColorSet : ColorAddCall(c1, c2)
    \/ \E colors \in ColorListSet, overflow_checks \in BOOLEAN :
          MeanColorCall(colors, overflow_checks)
    \/ \E color \in GammaColorSet : GammaCorrectedCall(color)
    \/ \E color \in ColorSet, s \in ScalarSet : ColorMulCall(color, s)
    \/ \E aspect_ratio \in AspectRatioSet, image_width \in ImageWidthSet,
          sample_per_pixel \in SamplePerPixelSet, max_ray_bounces \in 0..MaxBounces :
          InitializeCall(aspect_ratio, image_width, sample_per_pixel, max_ray_bounces)
    \/ \E input \in LambertianInputSet : ScatterDirectionCall(input[1], input[2])
    \/ Drop

\* the functions that read no state, each applied to the inputs above
CallSpec == Init /\ [][CallNext]_vars

----------------------------------------------------------------------------
(* Properties of World::hit *)

\* the hit object i of the list reports by itself on the ray and interval of the call
OwnHit(i) == SphereHit(call.objects[i], call.ray, call.interval)
Reporting == { i \in 1..Len(call.objects) : OwnHit(i).some }
\* the list without its last object, and what World::hit returns on it
Prefix == SubSeq(call.objects, 1, Len(call.objects) - 1)
PrefixHit == WorldHit(Prefix, call.ray, call.interval)

\* C1: World::hit returns None iff no object of the list reports a hit inside the
\* interval; otherwise it returns the hit of one of them, and no object reports a
\* hit with a smaller t.  When the last object of the list reports a hit farther
\* than the hit the list without it returns, the hit returned is that earlier one.
C1_WorldHitClosest ==
    call.op = "World.hit" =>
        /\ call.result.some <=> Reporting # {}
        /\ call.result.some =>
              /\ \E i \in Reporting : call.result = OwnHit(i)
              /\ \A i \in Reporting : RLe(call.result.t, OwnHit(i).t)
              /\ RLt(call.interval.min, call.result.t)
              /\ RLt(call.result.t, call.interval.max)
        /\ (/\ Len(call.objects) >= 1
            /\ PrefixHit.some
            /\ OwnHit(Len(call.objects)).some
            /\ RLt(PrefixHit.t, OwnHit(Len(call.objects)).t))
           => call.result = PrefixHit

\* two objects report a hit, the last one farther: the nearer one is returned
C1_FartherAppended ==
    /\ call.op = "World.hit"
    /\ Len(call.objects) = 2
    /\ OwnHit(1).some
    /\ OwnHit(2).some
    /\ RLt(OwnHit(1).t, OwnHit(2).t)
    /\ call.result = OwnHit(1)

----------------------------------------------------------------------------
(* Properties of Sphere::hit *)

\* the quadratic of the call: a t^2 - 2 h t + c = 0
CallQC == VSub(call.sphere.center, call.ray.origin)
CallA == Dot(call.ray.direction, call.ray.direction)
CallH == Dot(call.ray.direction, CallQC)
CallC == RSub(Dot(CallQC, CallQC), RMul(call.sphere.radius, call.sphere.radius))
CallDisc == RSub(RMul(CallH, CallH), RMul(CallA, CallC))
CallSmaller == RDiv(RSub(CallH, RSqrt(CallDisc)), CallA)
CallLarger == RDiv(RAdd(CallH, RSqrt(CallDisc)), CallA)
StrictlyInside(iv, x) == RLt(iv.min, x) /\ RLt(x, iv.max)

\* C2: Sphere::hit returns None when h*h - a*c is negative; otherwise the hit at
\* the smaller root when that lies strictly inside the interval, else the hit at
\* the larger root when that does, else None.  The t of a returned hit is
\* strictly between interval.min and interval.max.
C2_SphereHitRoots ==
    call.op = "Sphere.hit" =>
        /\ IF RLt(CallDisc, Zero) THEN ~call.result.some
           ELSE IF StrictlyInside(call.interval, CallSmaller)
                THEN call.result.some /\ call.result.t = CallSmaller
           ELSE IF StrictlyInside(call.interval, CallLarger)
                THEN call.result.some /\ call.result.t = CallLarger
           ELSE ~call.result.some
        /\ call.result.some =>
              /\ RLt(call.interval.min, call.result.t)
              /\ RLt(call.result.t, call.interval.max)
              /\ call.result.p = At(call.ray, call.result.t)

\* the smaller root is not inside the interval and the larger one is returned
C2_LargerRootTaken ==
    /\ call.op = "Sphere.hit"
    /\ ~RLt(CallDisc, Zero)
    /\ RLt(CallSmaller, CallLarger)
    /\ ~StrictlyInside(call.interval, CallSmaller)
    /\ call.result.some
    /\ call.result.t = CallLarger

CallOutward == VDiv(VSub(call.result.p, call.sphere.center), call.sphere.radius)

\* C3: a hit Sphere::hit returns has front_face = (dot(direction, outward_normal) < 0)
\* with outward_normal = (p - center) / radius; its normal is outward_normal when
\* front_face holds and -outward_normal otherwise; dot(direction, normal) <= 0.
C3_NormalOpposesRay ==
    (call.op = "Sphere.hit" /\ call.result.some) =>
        /\ call.result.front_face = RLt(Dot(call.ray.direction, CallOutward), Zero)
        /\ call.result.normal =
              IF call.result.front_face THEN CallOutward ELSE VScale(I(-1), CallOutward)
        /\ RLe(Dot(call.ray.direction, call.result.normal), Zero)

\* a hit from inside the sphere: the normal stored is the outward normal negated
C3_BackFace ==
    /\ call.op = "Sphere.hit"
    /\ call.result.some
    /\ ~call.result.front_face
    /\ RLt(Zero, Dot(call.ray.direction, CallOutward))
    /\ call.result.normal = VScale(I(-1), CallOutward)

\* the distance from the ray origin to the center, and the unit direction
CallDistance == VLen(CallQC)
CallUnit == Normalized(call.ray.direction)
\* the origin is outside the sphere and the direction points at its center
AimedFromOutside ==
    /\ HasSqrt(Dot(CallQC, CallQC))
    /\ HasSqrt(CallA)
    /\ RLt(call.sphere.radius, CallDistance)
    /\ VScale(CallDistance, CallUnit) = CallQC
\* the near intersection: its distance in units of the direction, and the point
CallNearT == RDiv(RSub(CallDistance, call.sphere.radius), VLen(call.ray.direction))
CallNearPoint == VSub(call.sphere.center, VScale(call.sphere.radius, CallUnit))

\* C4: for a ray from outside a sphere whose direction points at its center, and an
\* interval containing the near intersection distance, Sphere::hit returns the hit
\* at the near intersection point, t = (distance to center - radius) / |direction|,
\* with front_face true and the normal the unit direction negated.
C4_AimedAtCenter ==
    (/\ call.op = "Sphere.hit"
     /\ AimedFromOutside
     /\ StrictlyInside(call.interval, CallNearT))
    => /\ call.result.some
       /\ call.result.t = CallNearT
       /\ call.result.p = CallNearPoint
       /\ call.result.front_face
       /\ call.result.normal = VScale(I(-1), CallUnit)
       /\ (CallA = One => call.result.t = RSub(CallDistance, call.sphere.radius))

\* tests::hit_sphere: center (3,0,0), radius 1, the ray from the origin along +x
C4_HitSphereTest ==
    /\ call.op = "Sphere.hit"
    /\ call.sphere.center = IVec(3, 0, 0)
    /\ call.sphere.radius = One
    /\ call.ray = Ray(IVec(0, 0, 0), IVec(1, 0, 0))
    /\ call.interval = Interval(Zero, I(100))
    /\ AimedFromOutside
    /\ call.result.some
    /\ call.result.t = Two
    /\ call.result.p = IVec(2, 0, 0)
    /\ call.result.normal = IVec(-1, 0, 0)
    /\ call.result.front_face

----------------------------------------------------------------------------
(* Properties of Interval::contains *)

\* a < b for fractions n/d with d >= 0, by cross-multiplication (+infinity is 1/0)
Below(a, b) == a.n * b.d < b.n * a.d

\* C5: contains(x) is true iff min < x and x < max; it is false for x = min, for
\* x = max, and for every x when min >= max.
C5_ContainsStrict ==
    call.op = "Interval.contains" =>
        /\ call.result <=> (Below(call.interval.min, call.x) /\ Below(call.x, call.interval.max))
        /\ call.x = call.interval.min => ~call.result
        /\ call.x = call.interval.max => ~call.result
        /\ ~Below(call.interval.min, call.interval.max) => ~call.result

\* contains is asked about the lower bound of an interval that is not empty
C5_BoundRejected ==
    /\ call.op = "Interval.contains"
    /\ Below(call.interval.min, call.interval.max)
    /\ call.x = call.interval.min
    /\ ~call.result

----------------------------------------------------------------------------
(* Properties of Camera::ray_color *)

\* C6: ray_color(ray, world, 0) returns black, whatever the ray and the world,
\* and calls neither World::hit nor scatter.
C6_DepthZeroBlack ==
    (pc # "idle" /\ depth0 = 0) =>
        /\ hitCalls = 0
        /\ scatterCalls = 0
        /\ hitRec = None
        /\ ~scattered.some
        /\ pc \in {"return", "done"} => result = Black /\ how = "base"

\* ray_color(ray, world, 0) has returned, on a ray that an object of the world is
\* in the way of
C6_BlackInFrontOfObject ==
    /\ pc = "done"
    /\ depth0 = 0
    /\ Len(objects) >= 1
    /\ WorldHit(objects, ray, RayColorInterval).some
    /\ result = Black
    /\ hitCalls = 0

\* C7: ray_color terminates.  Each recursive call is made with depth - 1; once a
\* call misses or finds depth 0 no further call is made; a call with depth d makes
\* at most d nested calls, in any world.
C7_Terminates ==
    /\ [](/\ depth + scatterCalls = depth0
          /\ scatterCalls <= depth0
          /\ Len(stack) <= scatterCalls
          /\ hitCalls <= depth0)
    /\ [][scatterCalls' = scatterCalls + 1 => depth' = depth - 1 /\ depth >= 1]_vars
    /\ [][pc = "return" => hitCalls' <= hitCalls /\ scatterCalls' <= scatterCalls]_vars
    /\ (pc = "enter") ~> (pc = "done")

\* a call with depth 2 or more has returned after every one of its rays hit again
C7_EveryBounceHit ==
    /\ pc = "done"
    /\ depth0 >= 2
    /\ scatterCalls = depth0
    /\ depth = 0
    /\ how = "mul"

\* the y of the normalized direction of the ray that missed, and the a of blue_lerp
MissY == Normalized(ray.direction).y
MissA == RMul(Half, RAdd(MissY, One))
\* the gradient from white (a = 0) to c (a = 1), before the conversions to u8
Linear(c) == RAdd(RMul(RSub(One, MissA), I(MAX_COLOR_CHANNEL_VALUE)), RMul(MissA, I(c)))
\* v is Linear(c) up to the truncation of its two terms
Interpolated(v, c) == RLt(RSub(Linear(c), Two), I(v)) /\ RLe(I(v), Linear(c))

\* C8: when the ray misses every object, ray_color returns the background
\* gradient: sky-blue (127,178,255) for a normalized direction with y = +1, white
\* (255,255,255) for y = -1, interpolated linearly in between.
C8_Gradient ==
    how = "miss" =>
        /\ \A i \in 1..Len(objects) : ~SphereHit(objects[i], ray, RayColorInterval).some
        /\ MissY = One => result = Color(127, 178, 255)
        /\ MissY = I(-1) => result = Color(255, 255, 255)
        /\ Interpolated(result.r, 127)
        /\ Interpolated(result.g, 178)
        /\ Interpolated(result.b, 255)

\* a ray pointing straight up has missed
C8_StraightUp ==
    /\ how = "miss"
    /\ MissY = One
    /\ result = Color(127, 178, 255)

\* C8 as the claim states it: white for y = +1, sky-blue for y = -1
C8_WhiteOnTop ==
    how = "miss" =>
        /\ MissY = One => result = Color(255, 255, 255)
        /\ MissY = I(-1) => result = Color(127, 178, 255)

----------------------------------------------------------------------------
(* Properties of ScatteredRay::scatter *)

\* the direction scatter computed before it checked it against the normal
Computed == MatchDirection(scattered.hit, scattered.incident, scattered.raw)

\* C9: for a Lambertian and for a Metal material, the ray scatter returns has a
\* direction d with dot(d, hit.normal) >= 0, the computed direction negated when
\* its dot product with the normal is negative; its origin is hit.p and its
\* attenuation the albedo of the material.
C9_ScatterOutward ==
    scattered.some =>
        /\ scattered.hit.material.material_type.tag \in {"Lambertian", "Metal"}
        /\ RLe(Zero, Dot(scattered.ray.direction, scattered.hit.normal))
        /\ scattered.ray.direction =
              IF RLt(Dot(Computed, scattered.hit.normal), Zero)
              THEN VScale(I(-1), Computed)
              ELSE Computed
        /\ scattered.ray.origin = scattered.hit.p
        /\ scattered.attenuation = scattered.hit.material.albedo

\* scatter computed a direction into the surface and returned it negated
C9_Negated ==
    /\ scattered.some
    /\ RLt(Dot(Computed, scattered.hit.normal), Zero)
    /\ scattered.ray.direction = VScale(I(-1), Computed)
    /\ RLt(Zero, Dot(scattered.ray.direction, scattered.hit.normal))

----------------------------------------------------------------------------
(* Properties of Color + Color *)

Min(a, b) == IF a < b THEN a ELSE b

\* C10: Color + Color adds each channel by itself and saturates: each channel of
\* the sum is min(255, a + b), never the sum wrapped around.
C10_AddSaturates ==
    call.op = "Color.add" =>
        /\ call.result.r = Min(255, call.lhs.r + call.rhs.r)
        /\ call.result.g = Min(255, call.lhs.g + call.rhs.g)
        /\ call.result.b = Min(255, call.lhs.b + call.rhs.b)

\* a channel whose sum passes 255 while another does not
C10_OneChannelSaturated ==
    /\ call.op = "Color.add"
    /\ call.lhs.r + call.rhs.r > 255
    /\ call.result.r = 255
    /\ call.lhs.b + call.rhs.b < 255
    /\ call.result.b = call.lhs.b + call.rhs.b

----------------------------------------------------------------------------
(* Properties of Color::mean_color *)

\* the list of the call holds one color, one or more times
IdenticalColors ==
    /\ Len(call.colors) >= 1
    /\ \A i \in 1..Len(call.colors) : call.colors[i] = call.colors[1]

\* C11: mean_color of a list of N >= 1 identical colors returns that color, for
\* every N and every channel value: the u16 accumulators do not overflow.
C11_MeanOfIdentical ==
    (call.op = "Color.mean_color" /\ IdenticalColors)
    => call.result = Returned(call.colors[1])

----------------------------------------------------------------------------
(* Properties of Color::gamma_corrected *)

\* the channel r of the result is the integer square root of the channel c
FloorRoot(c, r) ==
    /\ r * r <= c
    /\ c < (r + 1) * (r + 1)
    /\ (c = 0 => r = 0)
    /\ (c = 100 => r = 10)

\* C12: gamma correction maps each channel c by itself to floor(sqrt(c)): 0 to 0,
\* 100 to 10, and the result r always satisfies r*r <= c < (r+1)*(r+1).
C12_GammaFloorSqrt ==
    call.op = "Color.gamma_corrected"
    => /\ FloorRoot(call.color.r, call.result.r)
       /\ FloorRoot(call.color.g, call.result.g)
       /\ FloorRoot(call.color.b, call.result.b)

\* a call on channels 100, 188 and 155: a square and two values just past the
\* middle of two squares
C12_HundredToTen ==
    /\ call.op = "Color.gamma_corrected"
    /\ call.color = Color(100, 188, 155)
    /\ call.result = Color(10, 13, 12)

----------------------------------------------------------------------------
(* Properties of Color * f64 *)

\* channel * s with its fraction dropped, kept within 0..255
Truncated(channel, s) ==
    IF s.n <= 0 THEN 0
    ELSE Min(MAX_COLOR_CHANNEL_VALUE, (channel * s.n) \div s.d)
Scaled(color, s) ==
    Color(Truncated(color.r, s), Truncated(color.g, s), Truncated(color.b, s))

\* C13: a Color times a scalar s has each channel trunc(channel * s), within
\* 0..255, and Color * s equals s * Color.
C13_MulTruncates ==
    call.op = "Color.mul"
    => /\ call.product = Scaled(call.color, call.scalar)
       /\ call.flipped = call.product

\* the two products of tests::color_mul_f64
C13_ColorMulF64Test ==
    /\ call.op = "Color.mul"
    /\ call.color = Color(100, 40, 80)
    /\ call.scalar = Half
    /\ call.product = Color(50, 20, 40)
    /\ call.flipped = Color(50, 20, 40)

----------------------------------------------------------------------------
(* Properties of Camera::initialize *)

\* C14: initialize makes viewport_width / viewport_height equal to image_width /
\* image_height as a real ratio (3.0 wide for width 500 at 3:2), and pixel_delta_u
\* is that viewport width divided by image_width.
C14_ViewportRatio ==
    call.op = "Camera.initialize"
    => /\ RDiv(call.viewport_width, ViewportHeight)
             = Q(call.image_width, call.result.image_height)
       /\ (call.image_width = 500 /\ call.aspect_ratio = Q(3, 2))
             => call.viewport_width = I(3)
       /\ call.image_width > 0
             => call.result.pixel_delta_u
                   = Vec(Zero, Zero, RDiv(call.viewport_width, I(call.image_width)))

\* image_width / aspect_ratio of the call
Quotient == RDiv(I(call.image_width), call.aspect_ratio)

\* C15: the stored image_height is max(1, trunc(image_width / aspect_ratio)): at
\* least 1 for every image_width, 0 included, and every positive aspect ratio.
C15_HeightAtLeastOne ==
    call.op = "Camera.initialize"
    => /\ call.result.image_height >= 1
       /\ IF RLt(Quotient, One) THEN call.result.image_height = 1
          ELSE /\ RLe(I(call.result.image_height), Quotient)
               /\ RLt(Quotient, I(call.result.image_height + 1))

\* a width of 1 at 2:1, where the quotient 0.5 is truncated to 0
C15_ZeroRaisedToOne ==
    /\ call.op = "Camera.initialize"
    /\ call.image_width = 1
    /\ call.aspect_ratio = Two
    /\ call.result.image_height = 1

----------------------------------------------------------------------------
(* Properties of Camera::render *)

\* the k-th call of ray_color of a render in row-major order, sample_per_pixel
\* calls to a pixel, each at depth max_ray_bounces
RowMajor(camera, k) ==
    [row |-> (k - 1) \div (camera.image_width * camera.sample_per_pixel),
     col |-> ((k - 1) \div camera.sample_per_pixel) % camera.image_width,
     depth |-> camera.max_ray_bounces]
RaysOfImage(camera) ==
    camera.image_height * camera.image_width * camera.sample_per_pixel

\* the calls of ray_color made so far are the first calls of the row-major order
TracedInOrder ==
    /\ Len(call.traced) <= RaysOfImage(call.camera)
    /\ \A k \in 1..Len(call.traced) : call.traced[k] = RowMajor(call.camera, k)

\* the Image returned: every call was made, and the grid is image_height rows of
\* image_width pixels
GridReturned ==
    /\ Len(call.traced) = RaysOfImage(call.camera)
    /\ Len(call.pixels_matrix) = call.camera.image_height
    /\ \A i \in 1..Len(call.pixels_matrix) :
          Len(call.pixels_matrix[i]) = call.camera.image_width

\* what render does as long as it runs, and what it has done when it returns
RenderVisits ==
    call.op = "Camera.render"
    => /\ objects = call.world
       /\ TracedInOrder
       /\ pc \in {"enter", "return", "done"}
             => depth0 = call.camera.max_ray_bounces
       /\ call.at = "returned" => GridReturned

\* C16: render visits every pixel once in row-major order, traces exactly
\* sample_per_pixel rays for each at depth max_ray_bounces, returns a grid of
\* image_height rows of image_width pixels, and leaves the world as it was.
C16_RenderGrid ==
    /\ RenderVisits
    /\ call.op = "Camera.render" => call.at # "panicked"

----------------------------------------------------------------------------
(* World::hit and the order of World::add *)

\* the lists that hold the objects of the call in another order
Reorderings ==
    { [i \in 1..Len(call.objects) |-> call.objects[f[i]]] :
         f \in Permutations(1..Len(call.objects)) }
\* the objects that report the t of the result, by their place in the list
Nearest == { i \in Reporting : OwnHit(i).t = call.result.t }

\* C17 as stated: World::hit returns the same HitRecord for every order of the
\* primitives, also when two of them report hits with equal t.
C17_OrderIrrelevant ==
    call.op = "World.hit"
    => \A objs \in Reorderings :
          WorldHit(objs, call.ray, call.interval) = call.result

\* C17: whether World::hit returns a hit, and its t, are the same for every order
\* of the primitives; the HitRecord is the same for every order when one
\* primitive alone reports the smallest t, and when several report it the record
\* of the one added first is returned.
C17_OrderUpToTies ==
    call.op = "World.hit"
    => /\ \A objs \in Reorderings :
             \E hit \in {WorldHit(objs, call.ray, call.interval)} :
                /\ hit.some = call.result.some
                /\ hit.some => hit.t = call.result.t
                /\ (call.result.some /\ Cardinality(Nearest) = 1)
                      => hit = call.result
       /\ call.result.some
             => \E i \in Nearest : /\ \A j \in Nearest : i <= j
                                   /\ call.result = OwnHit(i)

\* two spheres report the same t with different records: the first one is returned
C17_TieToFirstAdded ==
    /\ call.op = "World.hit"
    /\ Len(call.objects) = 2
    /\ Nearest = {1, 2}
    /\ OwnHit(1) # OwnHit(2)
    /\ call.result = OwnHit(1)

----------------------------------------------------------------------------
(* Properties of Lambertian scattering *)

\* |x| < 1e-8
TinyMagnitude(x) == RLt(x, NearZeroLimit) /\ RLt(RNeg(x), NearZeroLimit)
AllTiny(v) == TinyMagnitude(v.x) /\ TinyMagnitude(v.y) /\ TinyMagnitude(v.z)

\* C18: the direction random unit vector + normal is replaced by the normal only
\* when every component has absolute value below 1e-8; with any component of
\* magnitude >= 1e-8, negative ones included, it is kept.
C18_ReplacedOnlyNearNull ==
    call.op = "Material.scatter"
    => call.scatter_direction
          = (IF AllTiny(call.computed) THEN call.normal ELSE call.computed)

====
